---- MODULE Spec2Model ----
(***************************************************************************)
(* Model of hive_utils.hive_client: the HiveClient wrapper around the     *)
(* generated ThriftHive client, its openclose/session connection          *)
(* discipline, the lazy result generator of execute and the column        *)
(* helpers.  The Thrift transport, the Hive server and the metastore are  *)
(* external collaborators; they are modelled by the part of their         *)
(* behaviour the client observes.                                          *)
(***************************************************************************)
EXTENDS Integers, Sequences, FiniteSets, TLC

VARIABLES
    alreadyOpenRaises, \* installed thrift: TSocket.open() on an open socket raises (TRUE) or reconnects (FALSE)
    client,            \* "none" before HiveClient(...), "ok" once constructed, "failed" if __init__ raised
    isOpen,            \* self.__transport.isOpen()
    keep_open,         \* self.__transport.keep_open (absent attribute reads as FALSE)
    sessionActive,     \* a session() block is suspended at its yield
    sessionOpens,      \* transport.open() calls made since the session was entered
    sessionCloses,     \* transport.close() calls made since the session was entered (its own exit included)
    srvCursor,         \* server side, per connection: the result rows the last execute left to fetch
    srvTable,          \* metastore: the columns of table "t" (table.sd.cols)
    srvResult,         \* server side: what each query returns, [schema, rows]
    gen,               \* the result generators obtained from execute()
    lastOp,            \* record of the operation that produced this state
    recording          \* whether the generators keep the rows they received and the records they yielded

vars == <<alreadyOpenRaises, client, isOpen, keep_open, sessionActive, sessionOpens,
          sessionCloses, srvCursor, srvTable, srvResult, gen, lastOp, recording>>

----------------------------------------------------------------------------
(* Bounds of the model *)

MaxCols == 2
MaxRows == 2
MaxRowLen == 2
MaxFields == 2
NGens == 1

(* Program constant: the batch size of execute's fetchN *)
FetchSize == 500

TAB == "\t"

Min(a, b) == IF a < b THEN a ELSE b

RECURSIVE SeqsUpTo(_, _)
SeqsUpTo(S, n) ==
    IF n = 0 THEN {<<>>}
    ELSE LET shorter == SeqsUpTo(S, n - 1)
         IN  shorter \cup {Append(s, x) : s \in {t \in shorter : Len(t) = n - 1}, x \in S}

----------------------------------------------------------------------------
(* Values of the environment *)

Databases == {"default"}
DbNames == {"default", "nodb"}
TableNames == {"t", "missing"}
ColumnNames == {"x", "y"}
DataTypes == {"int", "string"}
Comments == {"", "c"}
Queries == {"q1", "q2"}
FieldNames == {"a", "b"}
Chars == {"1", TAB}
Gens == 1..NGens
GenIds == Gens \cup {1, 2}

FieldSchema(name, type, comment) ==
    [cls |-> "FieldSchema", name |-> name, type |-> type, comment |-> comment]

PyStr(s) == [cls |-> "str", v |-> s]

AllColumns == {FieldSchema(n, t, c) : n \in ColumnNames, t \in DataTypes, c \in Comments}

NoCursor == [active |-> FALSE, query |-> "", rows |-> <<>>]

----------------------------------------------------------------------------
(* Python semantics used by the client *)

\* a == b between objects: thrift structs compare equal only to an instance of
\* their own class with equal fields; a str never equals a FieldSchema
PyEq(a, b) == a.cls = b.cls /\ a = b

\* x in list
PyIn(x, list) == \E i \in DOMAIN list : PyEq(list[i], x)

\* [col for col in cols if col.name != column_name]
RECURSIVE ColsWithout(_, _)
ColsWithout(cols, column_name) ==
    IF cols = <<>> THEN <<>>
    ELSE IF Head(cols).name # column_name
         THEN <<Head(cols)>> \o ColsWithout(Tail(cols), column_name)
         ELSE ColsWithout(Tail(cols), column_name)

\* row.split('\t'): the fields between the separators, one more than there are separators
RECURSIVE split(_, _)
split(row, sep) ==
    IF \A i \in DOMAIN row : row[i] # sep THEN <<row>>
    ELSE LET i == CHOOSE j \in DOMAIN row : row[j] = sep /\ \A h \in 1..(j - 1) : row[h] # sep
         IN  <<SubSeq(row, 1, i - 1)>> \o split(SubSeq(row, i + 1, Len(row)), sep)

\* zip(a, b): pairs up to the shorter of the two
zip(a, b) == [i \in 1..Min(Len(a), Len(b)) |-> <<a[i], b[i]>>]

\* dict(pairs): one entry per distinct key, a later pair replacing an earlier one
dict(pairs) ==
    [key \in {pairs[i][1] : i \in DOMAIN pairs} |->
        LET last == CHOOSE i \in DOMAIN pairs :
                        pairs[i][1] = key /\ \A j \in DOMAIN pairs : pairs[j][1] = key => j <= i
        IN  pairs[last][2]]

\* [getattr(col, 'name') for col in cols]
ColNames(cols) == [i \in DOMAIN cols |-> cols[i].name]

\* column_name in col_names, a list of str
NameIn(column_name, col_names) == \E i \in DOMAIN col_names : col_names[i] = column_name

----------------------------------------------------------------------------
(* The transport and the remote calls, threaded through an operation as a
   record e: the connection, the server state and what the operation did *)

Env ==
    [isOpen |-> isOpen, keep_open |-> keep_open, cursor |-> srvCursor, table |-> srvTable,
     calls |-> <<>>, tlog |-> <<>>, raised |-> FALSE, fetched |-> <<>>, submits |-> <<>>,
     ret |-> <<>>]

\* transport.open(): a new connection, whose server-side session has no query
TransportOpen(e) ==
    IF e.isOpen /\ alreadyOpenRaises
    THEN [e EXCEPT !.tlog = Append(@, [call |-> "open", wasOpen |-> TRUE]), !.raised = TRUE]
    ELSE [e EXCEPT !.isOpen = TRUE, !.cursor = NoCursor,
                   !.tlog = Append(@, [call |-> "open", wasOpen |-> e.isOpen])]

\* transport.close(): closing a closed transport does nothing
TransportClose(e) ==
    [e EXCEPT !.isOpen = FALSE, !.cursor = NoCursor,
              !.tlog = Append(@, [call |-> "close", wasOpen |-> e.isOpen])]

\* a call on self.__client: it raises when the transport is closed or when the
\* call is the failAt-th remote call of the operation (a remote failure)
RemoteCall(e, call, n, failAt) ==
    [e EXCEPT !.calls = Append(@, [call |-> call, open |-> e.isOpen, n |-> n]),
              !.raised = ~e.isOpen \/ Len(e.calls) + 1 = failAt]

----------------------------------------------------------------------------
(* openclose(transport), lines 15-21: the part before the yield, and the part
   after it, which runs only when the body did not raise (the generator has no
   try/finally, so an exception thrown in at the yield leaves it at once) *)

openclose_enter(e) ==
    IF ~e.keep_open THEN TransportOpen(e) ELSE e

\* a variant that closes whatever keep_open says
openclose_exit_always(e) ==
    IF e.raised THEN e ELSE TransportClose(e)

openclose_exit(e) ==
    IF e.raised THEN e
    ELSE IF ~e.keep_open THEN TransportClose(e) ELSE e

\* self.__client.get_table(self.__db, table_name): the metastore raises for an unknown table
client_get_table(e, table_name, failAt) ==
    LET r == RemoteCall(e, "get_table", 0, failAt)
    IN  IF r.raised THEN r
        ELSE IF table_name # "t" THEN [r EXCEPT !.raised = TRUE]
        ELSE [r EXCEPT !.fetched = e.table]

\* self.__client.alter_table(self.__db, table_name, table)
client_alter_table(e, cols, failAt) ==
    LET r == RemoteCall(e, "alter_table", 0, failAt)
    IN  IF ~e.isOpen THEN r
        ELSE IF r.raised THEN [r EXCEPT !.submits = Append(@, cols)]
        ELSE [r EXCEPT !.submits = Append(@, cols), !.table = cols]

\* HiveClient.get_table: any failure of the call is re-raised as HiveClientException
get_table(e, table_name, failAt) ==
    LET e1 == openclose_enter(e)
    IN  IF e1.raised THEN e1
        ELSE openclose_exit(client_get_table(e1, table_name, failAt))

\* HiveClient.get_columns
get_columns(e, table_name, failAt) ==
    LET e1 == openclose_enter(e)
    IN  IF e1.raised THEN e1
        ELSE openclose_exit(client_get_table(e1, table_name, failAt))

\* a variant that puts the new column first
add_column_first(e, table_name, column_name, data_type, comment, failAt) ==
    LET e1 == openclose_enter(e)
        e2 == client_get_table(e1, table_name, failAt)
        cols == <<FieldSchema(column_name, data_type, comment)>> \o e2.fetched
    IN  IF e1.raised THEN e1
        ELSE IF e2.raised THEN e2
        ELSE openclose_exit(client_alter_table(e2, cols, failAt))

\* HiveClient.add_column: the membership test compares the str column_name
\* with the FieldSchema objects of table.sd.cols
add_column(e, table_name, column_name, data_type, comment, failAt) ==
    LET e1 == openclose_enter(e)
        e2 == client_get_table(e1, table_name, failAt)
        cols == Append(e2.fetched, FieldSchema(column_name, data_type, comment))
    IN  IF e1.raised THEN e1
        ELSE IF e2.raised THEN e2
        ELSE IF PyIn(PyStr(column_name), e2.fetched) THEN [e2 EXCEPT !.raised = TRUE]
        ELSE openclose_exit(client_alter_table(e2, cols, failAt))

\* a variant that submits when the filter removed nothing
remove_column_unchanged(e, table_name, column_name, failAt) ==
    LET e1 == openclose_enter(e)
        e2 == client_get_table(e1, table_name, failAt)
        num_cols == Len(e2.fetched)
        cols == ColsWithout(e2.fetched, column_name)
    IN  IF e1.raised THEN e1
        ELSE IF e2.raised THEN e2
        ELSE IF Len(cols) = num_cols
             THEN openclose_exit(client_alter_table(e2, cols, failAt))
             ELSE [e2 EXCEPT !.raised = TRUE]

\* HiveClient.remove_column
remove_column(e, table_name, column_name, failAt) ==
    LET e1 == openclose_enter(e)
        e2 == client_get_table(e1, table_name, failAt)
        num_cols == Len(e2.fetched)
        cols == ColsWithout(e2.fetched, column_name)
    IN  IF e1.raised THEN e1
        ELSE IF e2.raised THEN e2
        ELSE IF Len(cols) - 1 = num_cols
             THEN openclose_exit(client_alter_table(e2, cols, failAt))
             ELSE [e2 EXCEPT !.raised = TRUE]

\* a variant that takes every column of that name, whatever its type
RECURSIVE AlterLoop_any_type(_, _, _, _, _, _)
AlterLoop_any_type(e, cols, i, column_name, data_type, failAt) ==
    IF i > Len(cols) \/ e.raised THEN e
    ELSE IF e.fetched[i].name = column_name
         THEN LET altered == [cols EXCEPT ![i].type = data_type]
              IN  AlterLoop_any_type(client_alter_table(e, altered, failAt), altered, i + 1,
                                     column_name, data_type, failAt)
         ELSE AlterLoop_any_type(e, cols, i + 1, column_name, data_type, failAt)

\* for column_to_alter in columns_to_alter: set its type, submit the whole table
RECURSIVE AlterLoop(_, _, _, _, _, _)
AlterLoop(e, cols, i, column_name, data_type, failAt) ==
    IF i > Len(cols) \/ e.raised THEN e
    ELSE IF e.fetched[i].name = column_name /\ e.fetched[i].type # data_type
         THEN LET altered == [cols EXCEPT ![i].type = data_type]
              IN  AlterLoop(client_alter_table(e, altered, failAt), altered, i + 1,
                            column_name, data_type, failAt)
         ELSE AlterLoop(e, cols, i + 1, column_name, data_type, failAt)

\* a variant without the test that the column exists
alter_column_type_unchecked(e, table_name, column_name, data_type, failAt) ==
    LET e1 == openclose_enter(e)
        e2 == client_get_table(e1, table_name, failAt)
    IN  IF e1.raised THEN e1
        ELSE IF e2.raised THEN e2
        ELSE openclose_exit(AlterLoop(e2, e2.fetched, 1, column_name, data_type, failAt))

\* HiveClient.alter_column_type (the comment parameter is not used)
alter_column_type(e, table_name, column_name, data_type, failAt) ==
    LET e1 == openclose_enter(e)
        e2 == client_get_table(e1, table_name, failAt)
    IN  IF e1.raised THEN e1
        ELSE IF e2.raised THEN e2
        ELSE IF ~NameIn(column_name, ColNames(e2.fetched)) THEN [e2 EXCEPT !.raised = TRUE]
        ELSE openclose_exit(AlterLoop(e2, e2.fetched, 1, column_name, data_type, failAt))

----------------------------------------------------------------------------
(* The calls of execute on the server: one query per connection at a time *)

\* self.__client.execute(query): the connection's session now holds this query's rows
client_execute(e, query, failAt) ==
    LET r == RemoteCall(e, "execute", 0, failAt)
    IN  IF ~e.isOpen THEN r
        ELSE IF r.raised THEN [r EXCEPT !.cursor = NoCursor]
        ELSE [r EXCEPT !.cursor = [active |-> TRUE, query |-> query,
                                   rows |-> srvResult[query].rows]]

\* self.__client.getThriftSchema().fieldSchemas, as the list of their names
client_getThriftSchema(e, failAt) ==
    LET r == RemoteCall(e, "getThriftSchema", 0, failAt)
    IN  IF r.raised THEN r
        ELSE [r EXCEPT !.ret = IF e.cursor.active THEN srvResult[e.cursor.query].schema
                                ELSE <<>>]

\* self.__client.fetchN(n): the next rows of the connection's query, at most n and
\* at most the k the server chooses to send (k >= 1); nothing when no rows are left
client_fetchN(e, n, k, failAt) ==
    LET r == RemoteCall(e, "fetchN", n, failAt)
        m == Min(Min(n, k), Len(e.cursor.rows))
    IN  IF r.raised THEN r
        ELSE [r EXCEPT !.ret = SubSeq(e.cursor.rows, 1, m),
                       !.cursor.rows = SubSeq(e.cursor.rows, m + 1, Len(e.cursor.rows))]

----------------------------------------------------------------------------
(* HiveClient.execute, lines 50-75: a generator.  Calling it runs nothing; each
   next() runs it to its next yield, to its end or to an exception. *)

NoGen ==
    [pc |-> "none", query |-> "", stypes |-> <<>>, buf |-> <<>>, recv |-> <<>>,
     out |-> <<>>, emptySeen |-> FALSE, lateFetch |-> FALSE, submitted |-> ""]

\* a variant that pairs the names with the fields after the first
record_shifted(stypes, row) == dict(zip(stypes, Tail(split(row, TAB))))

\* dict(zip(stypes, row.split('\t')))
record(stypes, row) == dict(zip(stypes, split(row, TAB)))

\* a variant that stops only at the second empty batch
is_last_batch_second(g, rows) == Len(rows) = 0 /\ g.emptySeen

\* if not len(rows): break
is_last_batch(g, rows) == Len(rows) = 0

\* the while loop from the point where the generator resumes: the rest of the
\* current batch first, then one fetchN at a time
RECURSIVE execute_loop(_, _, _, _)
execute_loop(e, g, k, failAt) ==
    IF g.buf # <<>>
    THEN [e |-> e, g |-> [g EXCEPT !.pc = "suspended", !.buf = Tail(@),
                                   !.out = IF recording THEN Append(@, record(g.stypes, Head(g.buf)))
                                           ELSE @]]
    ELSE LET e1 == client_fetchN(e, FetchSize, k, failAt)
             rows == e1.ret
             g1 == [g EXCEPT !.recv = IF recording THEN @ \o rows ELSE @, !.lateFetch = @ \/ g.emptySeen,
                             !.emptySeen = @ \/ rows = <<>>]
         IN  IF e1.raised
             THEN [e |-> e1, g |-> [g EXCEPT !.pc = "raised", !.lateFetch = @ \/ g.emptySeen]]
             ELSE IF is_last_batch(g, rows)
             THEN [e |-> openclose_exit(e1), g |-> [g1 EXCEPT !.pc = "done"]]
             ELSE execute_loop(e1, [g1 EXCEPT !.buf = rows], k, failAt)

\* a variant that submits the query without entering openclose
execute_start_unscoped(e, g, k, failAt) ==
    LET e2 == client_execute(e, g.query, failAt)
        e3 == client_getThriftSchema(e2, failAt)
    IN  IF e2.raised THEN [e |-> e2, g |-> [g EXCEPT !.pc = "raised"]]
        ELSE IF e3.raised
             THEN [e |-> e3, g |-> [g EXCEPT !.pc = "raised", !.submitted = e2.cursor.query]]
        ELSE execute_loop(e3, [g EXCEPT !.stypes = e3.ret, !.submitted = e2.cursor.query],
                          k, failAt)

\* the code from the top of execute to the loop
execute_start(e, g, k, failAt) ==
    LET e1 == openclose_enter(e)
        e2 == client_execute(e1, g.query, failAt)
        e3 == client_getThriftSchema(e2, failAt)
    IN  IF e1.raised THEN [e |-> e1, g |-> [g EXCEPT !.pc = "raised"]]
        ELSE IF e2.raised THEN [e |-> e2, g |-> [g EXCEPT !.pc = "raised"]]
        ELSE IF e3.raised
             THEN [e |-> e3, g |-> [g EXCEPT !.pc = "raised", !.submitted = e2.cursor.query]]
        ELSE execute_loop(e3, [g EXCEPT !.stypes = e3.ret, !.submitted = e2.cursor.query],
                          k, failAt)

\* next(generator)
generator_next(e, g, k, failAt) ==
    IF g.pc = "created" THEN execute_start(e, g, k, failAt)
    ELSE execute_loop(e, g, k, failAt)

----------------------------------------------------------------------------
(* HiveClient.session, lines 78-89, and HiveClient.__init__, lines 27-47 *)

\* the part of session before the yield
session_enter(e) ==
    LET e1 == TransportOpen(e)
    IN  IF e1.raised THEN e1 ELSE [e1 EXCEPT !.keep_open = TRUE]

\* a variant that closes and leaves keep_open as it is
session_exit_pinned(e) == TransportClose(e)

\* the part of session after the yield, run when the body did not raise
session_exit(e) ==
    [TransportClose(e) EXCEPT !.keep_open = FALSE]

\* a variant without the assert on what get_database returned
init_check_unasserted(e, db, failAt) ==
    LET e1 == openclose_enter(e)
        e2 == RemoteCall(e1, "get_database", 0, failAt)
    IN  IF e1.raised THEN e1
        ELSE IF e2.raised THEN e2
        ELSE openclose_exit(e2)

\* with openclose(self.__transport): assert self.__client.get_database(db)
init_check(e, db, failAt) ==
    LET e1 == openclose_enter(e)
        e2 == RemoteCall(e1, "get_database", 0, failAt)
    IN  IF e1.raised THEN e1
        ELSE IF e2.raised THEN e2
        ELSE IF db \notin Databases THEN [e2 EXCEPT !.raised = TRUE]
        ELSE openclose_exit(e2)

----------------------------------------------------------------------------
(* State *)

NoOp ==
    [name |-> "none", gen |-> 0, kept |-> FALSE,
     calls |-> <<>>, tlog |-> <<>>, raised |-> FALSE, fetched |-> <<>>, submits |-> <<>>,
     args |-> <<>>]

Count(tlog, call) == Cardinality({i \in DOMAIN tlog : tlog[i].call = call})

\* the effect of one operation on the connection, the server and the record of it
Finish(name, g, args, e) ==
    /\ isOpen' = e.isOpen
    /\ keep_open' = e.keep_open
    /\ srvCursor' = e.cursor
    /\ srvTable' = e.table
    /\ lastOp' = [name |-> name, gen |-> g, kept |-> keep_open,
                  calls |-> e.calls, tlog |-> e.tlog,
                  raised |-> e.raised, fetched |-> e.fetched, submits |-> e.submits,
                  args |-> args]
    /\ UNCHANGED <<alreadyOpenRaises, srvResult, recording>>

\* open() and close() calls are counted while a session is active
CountInSession(e) ==
    /\ sessionOpens' = IF sessionActive THEN Min(2, sessionOpens + Count(e.tlog, "open"))
                       ELSE sessionOpens
    /\ sessionCloses' = IF sessionActive THEN Min(2, sessionCloses + Count(e.tlog, "close"))
                        ELSE sessionCloses

MainResult ==
    [q \in Queries |->
        IF q = "q1" THEN [schema |-> <<"a", "b">>, rows |-> << <<"1", TAB, "2">> >>]
        ELSE [schema |-> <<"b">>, rows |-> << <<"3">> >>]]

InitCommon ==
    /\ alreadyOpenRaises \in BOOLEAN
    /\ client = "none"
    /\ isOpen = FALSE
    /\ keep_open = FALSE
    /\ sessionActive = FALSE
    /\ sessionOpens = 0
    /\ sessionCloses = 0
    /\ srvCursor = NoCursor
    /\ gen = [g \in GenIds |-> NoGen]
    /\ lastOp = NoOp

Init ==
    /\ InitCommon
    /\ srvTable = <<FieldSchema("x", "int", "")>>
    /\ srvResult = MainResult
    /\ recording = FALSE

----------------------------------------------------------------------------
(* Operations *)

\* HiveClient(server, port, db)
HiveClientInit(db, failAt) ==
    /\ client = "none"
    /\ LET e == init_check(Env, db, failAt)
       IN  /\ Finish("__init__", 0, <<db>>, e)
           /\ client' = IF e.raised THEN "failed" ELSE "ok"
    /\ UNCHANGED <<sessionActive, sessionOpens, sessionCloses, gen>>

\* with client.session(): entering the block
SessionEnter ==
    /\ client = "ok"
    /\ ~sessionActive
    /\ LET e == session_enter(Env)
       IN  /\ Finish("session_enter", 0, <<>>, e)
           /\ sessionActive' = ~e.raised
           /\ sessionOpens' = IF e.raised THEN sessionOpens ELSE 0
           /\ sessionCloses' = IF e.raised THEN sessionCloses ELSE 0
    /\ UNCHANGED <<client, gen>>

\* the block of a session ends normally
SessionExit ==
    /\ client = "ok"
    /\ sessionActive
    /\ LET e == session_exit(Env)
       IN  Finish("session_exit", 0, <<>>, e) /\ CountInSession(e)
    /\ sessionActive' = FALSE
    /\ UNCHANGED <<client, gen>>

\* the block of a session raises: the exception is thrown into session() at its
\* yield, and nothing after the yield runs
SessionRaise ==
    /\ client = "ok"
    /\ sessionActive
    /\ Finish("session_raise", 0, <<>>, [Env EXCEPT !.raised = TRUE])
    /\ sessionActive' = FALSE
    /\ UNCHANGED <<client, gen, sessionOpens, sessionCloses>>

Scoped(name, args, e) ==
    /\ client = "ok"
    /\ Finish(name, 0, args, e)
    /\ CountInSession(e)
    /\ UNCHANGED <<client, gen, sessionActive>>

GetTable(table_name, failAt) ==
    Scoped("get_table", <<table_name>>, get_table(Env, table_name, failAt))

GetColumns(table_name, failAt) ==
    Scoped("get_columns", <<table_name>>, get_columns(Env, table_name, failAt))

AddColumn(table_name, column_name, data_type, comment, failAt) ==
    /\ Len(srvTable) < MaxCols
    /\ Scoped("add_column", <<table_name, column_name, data_type, comment>>,
              add_column(Env, table_name, column_name, data_type, comment, failAt))

RemoveColumn(table_name, column_name, failAt) ==
    Scoped("remove_column", <<table_name, column_name>>,
           remove_column(Env, table_name, column_name, failAt))

AlterColumnType(table_name, column_name, data_type, failAt) ==
    Scoped("alter_column_type", <<table_name, column_name, data_type>>,
           alter_column_type(Env, table_name, column_name, data_type, failAt))

\* generator = client.execute(query): no line of execute runs yet
Execute(g, query) ==
    /\ client = "ok"
    /\ gen[g].pc \in {"none", "done", "raised", "closed"}
    /\ gen' = [gen EXCEPT ![g] = [NoGen EXCEPT !.pc = "created", !.query = query]]
    /\ Finish("execute", g, <<query>>, Env)
    /\ UNCHANGED <<client, sessionActive, sessionOpens, sessionCloses>>

\* next(generator)
GeneratorNext(g, k, failAt) ==
    /\ client = "ok"
    /\ gen[g].pc \in {"created", "suspended"}
    /\ Len(gen[g].recv) <= MaxRows
    /\ LET r == generator_next(Env, gen[g], k, failAt)
       IN  /\ gen' = [gen EXCEPT ![g] = r.g]
           /\ Finish("next", g, <<gen[g].query>>, [r.e EXCEPT !.raised = r.g.pc = "raised"])
           /\ CountInSession(r.e)
    /\ UNCHANGED <<client, sessionActive>>

\* the generator is dropped or closed before its end: GeneratorExit is raised at
\* its yield and leaves the with block as an exception does
GeneratorClose(g) ==
    /\ client = "ok"
    /\ gen[g].pc \in {"created", "suspended"}
    /\ gen' = [gen EXCEPT ![g].pc = "closed"]
    /\ Finish("close", g, <<gen[g].query>>, Env)
    /\ UNCHANGED <<client, sessionActive, sessionOpens, sessionCloses>>

----------------------------------------------------------------------------
(* Specifications *)

\* every operation of the client, on the table and the queries of Init
Next ==
    \/ \E db \in DbNames, f \in 0..1 : HiveClientInit(db, f)
    \/ SessionEnter
    \/ SessionExit
    \/ SessionRaise
    \/ \E t \in TableNames, f \in 0..1 : GetTable(t, f)
    \/ \E t \in TableNames, f \in 0..1 : GetColumns(t, f)
    \/ \E f \in 0..2 : AddColumn("t", "y", "int", "", f)
    \/ \E c \in ColumnNames, f \in 0..1 : RemoveColumn("t", c, f)
    \/ \E c \in ColumnNames, f \in 0..1 : AlterColumnType("t", c, "int", f)
    \/ \E g \in Gens : Execute(g, "q1")
    \/ \E g \in Gens, k \in 1..MaxRows, f \in 0..3 : GeneratorNext(g, k, f)
    \/ \E g \in Gens : GeneratorClose(g)

Spec == Init /\ [][Next]_vars

FailPoints == 0..(MaxCols + 1)

\* scoped operations only, outside any session, each generator run to its end
\* before anything else is called
NextScoped ==
    \/ \E db \in DbNames, f \in 0..1 : HiveClientInit(db, f)
    \/ /\ \A g \in GenIds : gen[g].pc \notin {"created", "suspended"}
       /\ \/ \E t \in TableNames, f \in 0..1 : GetTable(t, f)
          \/ \E t \in TableNames, f \in 0..1 : GetColumns(t, f)
          \/ \E c \in ColumnNames, f \in 0..2 : AddColumn("t", c, "int", "", f)
          \/ \E c \in ColumnNames, f \in 0..1 : RemoveColumn("t", c, f)
          \/ \E c \in ColumnNames, ty \in DataTypes, f \in 0..2 : AlterColumnType("t", c, ty, f)
          \/ \E q \in Queries : Execute(1, q)
    \/ \E k \in 1..MaxRows, f \in 0..3 : GeneratorNext(1, k, f)

SpecScoped == Init /\ [][NextScoped]_vars

\* one generator run once, on every result the server can hold within the bounds
Rows == SeqsUpTo(Chars, MaxRowLen)

\* the field-name lists, up to the renaming of the names (the first name is "a")
Schemas == {s \in SeqsUpTo(FieldNames, MaxFields) : s = <<>> \/ s[1] = "a"}

\* what a successful HiveClient(...) leaves as the record of the last operation
Constructed ==
    [NoOp EXCEPT !.name = "__init__", !.args = <<"default">>,
                 !.calls = <<[call |-> "get_database", open |-> TRUE, n |-> 0]>>,
                 !.tlog = <<[call |-> "open", wasOpen |-> FALSE],
                            [call |-> "close", wasOpen |-> TRUE]>>]

InitCursor ==
    /\ alreadyOpenRaises = TRUE
    /\ client = "ok"
    /\ isOpen = FALSE
    /\ keep_open = FALSE
    /\ sessionActive = FALSE
    /\ sessionOpens = 0
    /\ sessionCloses = 0
    /\ srvCursor = NoCursor
    /\ gen = [g \in GenIds |-> NoGen]
    /\ lastOp = Constructed
    /\ srvTable = <<FieldSchema("x", "int", "")>>
    /\ recording = TRUE
    /\ \E schema \in Schemas, rows \in SeqsUpTo(Rows, MaxRows) :
          srvResult = [q \in Queries |-> [schema |-> schema, rows |-> rows]]

NextCursor ==
    \/ gen[1].pc = "none" /\ Execute(1, "q1")
    \/ \E k \in 1..MaxRows : GeneratorNext(1, k, 0)

SpecCursor == InitCursor /\ [][NextCursor]_vars

\* the column helpers on every table within the bounds
InitMeta ==
    /\ InitCommon
    /\ srvTable \in SeqsUpTo({FieldSchema(n, t, "") : n \in ColumnNames, t \in DataTypes},
                             MaxCols)
    /\ srvResult = MainResult
    /\ recording = FALSE

NextMeta ==
    \/ HiveClientInit("default", 0)
    \/ \E t \in TableNames, f \in 0..1 : GetColumns(t, f)
    \/ \E t \in TableNames, c \in ColumnNames, ty \in DataTypes, cm \in Comments, f \in 0..2 :
          AddColumn(t, c, ty, cm, f)
    \/ \E t \in TableNames, c \in ColumnNames, f \in 0..2 : RemoveColumn(t, c, f)
    \/ \E t \in TableNames, c \in ColumnNames, ty \in DataTypes, f \in FailPoints :
          AlterColumnType(t, c, ty, f)

SpecMeta == InitMeta /\ [][NextMeta]_vars

\* two queries whose results have different field names and different rows, each
\* result longer than one batch sent by the server
PairResult ==
    [q \in Queries |->
        IF q = "q1" THEN [schema |-> <<"a", "b">>, rows |-> << <<"1", TAB, "1">>, <<"1", TAB>> >>]
        ELSE [schema |-> <<"b">>, rows |-> << <<"1">>, <<"1", "1">> >>]]

\* a constructed client and two queries
InitTwoGens ==
    /\ alreadyOpenRaises \in BOOLEAN
    /\ client = "ok"
    /\ isOpen = FALSE
    /\ keep_open = FALSE
    /\ sessionActive = FALSE
    /\ sessionOpens = 0
    /\ sessionCloses = 0
    /\ srvCursor = NoCursor
    /\ gen = [g \in GenIds |-> NoGen]
    /\ lastOp = Constructed
    /\ srvTable = <<FieldSchema("x", "int", "")>>
    /\ srvResult = PairResult
    /\ recording = TRUE

\* two generators, one per query, advanced in any order, inside or outside a session
NextTwoGens ==
    \/ SessionEnter
    \/ SessionExit
    \/ gen[1].pc = "none" /\ Execute(1, "q1")
    \/ gen[2].pc = "none" /\ Execute(2, "q2")
    \/ \E g \in {1, 2}, k \in 1..MaxRows : GeneratorNext(g, k, 0)

SpecTwoGens == InitTwoGens /\ [][NextTwoGens]_vars

----------------------------------------------------------------------------
(* Claims about the connection discipline *)

ScopedNames ==
    {"get_table", "get_columns", "add_column", "remove_column", "alter_column_type", "next"}

\* C1: whenever only scoped operations have been called, outside any session and
\* with every result generator run to its end, the transport is closed between
\* two operations
C1_ClosedBetweenScopedOps ==
    (client = "ok" /\ \A g \in GenIds : gen[g].pc # "suspended") => ~isOpen

\* C2: after a scoped operation that raised while keep_open was false, the
\* transport is closed
C2_ClosedAfterRaise ==
    (lastOp.name \in ScopedNames /\ lastOp.raised /\ ~lastOp.kept) => ~isOpen

\* C3: after the block of a session raised, the transport is closed and keep_open
\* is false
C3_SessionClosesOnRaise ==
    lastOp.name = "session_raise" => (~isOpen /\ ~keep_open)

\* C4: while a session is active the transport is open and no open() or close()
\* has been called since the session was entered; when the session has just been
\* left, close() has been called exactly once, by the exit, and the transport is
\* closed
C4_SessionNoOpenClose ==
    /\ sessionActive => (isOpen /\ sessionOpens = 0 /\ sessionCloses = 0)
    /\ lastOp.name = "session_exit" => (~isOpen /\ sessionOpens = 0 /\ sessionCloses = 1)

\* a scoped operation has completed normally inside an active session
C4_Witness ==
    /\ sessionActive
    /\ lastOp.name = "add_column"
    /\ ~lastOp.raised
    /\ lastOp.submits # <<>>

\* C5: every remote call of an operation is made while the transport is open
C5_RemoteCallsOnOpenTransport ==
    \A i \in DOMAIN lastOp.calls : lastOp.calls[i].open

----------------------------------------------------------------------------
(* Claims about the result generator *)

FetchCalls(calls) == {i \in DOMAIN calls : calls[i].call = "fetchN"}

\* C7: every fetchN asks for 500 rows, a next() issues at most one fetchN, a
\* generator that received an empty batch has ended, and no fetchN is issued by
\* a generator after it received an empty batch
C7_StopsAtFirstEmptyBatch ==
    /\ \A i \in FetchCalls(lastOp.calls) : lastOp.calls[i].n = 500
    /\ Cardinality(FetchCalls(lastOp.calls)) <= 1
    /\ \A g \in GenIds : gen[g].emptySeen => gen[g].pc = "done"
    /\ \A g \in GenIds : ~gen[g].lateFetch

\* a resumed generator fetched once, got an empty batch and ended
C7_Witness ==
    /\ lastOp.name = "next"
    /\ Len(lastOp.calls) = 1 /\ lastOp.calls[1].call = "fetchN" /\ lastOp.calls[1].open
    /\ ~lastOp.raised
    /\ gen[lastOp.gen].emptySeen
    /\ gen[lastOp.gen].pc = "done"

Distinct(s) == \A i, j \in DOMAIN s : s[i] = s[j] => i = j

\* the n-th record of generator g maps the i-th field name to the i-th
\* tab-separated field of the n-th row it received, for every i both have
RecordsMatchRows(g) ==
    \A n \in DOMAIN gen[g].out :
        LET fields == split(gen[g].recv[n], TAB)
        IN  \A i \in 1..Min(Len(gen[g].stypes), Len(fields)) :
                /\ gen[g].stypes[i] \in DOMAIN gen[g].out[n]
                /\ gen[g].out[n][gen[g].stypes[i]] = fields[i]

\* the records yielded by generator g are one per row received, in the order
\* received, and all the rows of the query once the generator has ended
OnePerRowInOrder(g) ==
    /\ Len(gen[g].out) + Len(gen[g].buf) = Len(gen[g].recv)
    /\ gen[g].pc = "done" => gen[g].recv = srvResult[gen[g].query].rows

----------------------------------------------------------------------------
(* Claims about the column helpers *)

\* the operation got the table from the metastore
GotTable(op) == op.calls # <<>> /\ ~(op.raised /\ Len(op.calls) = 1)

\* C9: add_column of a name the table already has raises and submits nothing
C9_AddExistingColumnFails ==
    (/\ lastOp.name = "add_column"
     /\ GotTable(lastOp)
     /\ NameIn(lastOp.args[2], ColNames(lastOp.fetched)))
    => (lastOp.raised /\ lastOp.submits = <<>>)

\* C10: add_column of a name the table does not have submits exactly one schema:
\* the columns of the table in their order, then the new column
C10_AddColumnAppends ==
    (/\ lastOp.name = "add_column"
     /\ GotTable(lastOp)
     /\ ~NameIn(lastOp.args[2], ColNames(lastOp.fetched)))
    => lastOp.submits =
         << lastOp.fetched \o
            <<[cls |-> "FieldSchema", name |-> lastOp.args[2], type |-> lastOp.args[3],
               comment |-> lastOp.args[4]]>> >>

\* a column with a new name and a comment was added to a table that has a column
C10_Witness ==
    /\ lastOp.name = "add_column"
    /\ ~lastOp.raised
    /\ lastOp.fetched # <<>>
    /\ ~NameIn(lastOp.args[2], ColNames(lastOp.fetched))
    /\ lastOp.args[4] = "c"
    /\ Len(lastOp.submits) = 1
    /\ srvTable = lastOp.submits[1]
    /\ Len(srvTable) = Len(lastOp.fetched) + 1

\* C11: remove_column of a name the table has does not raise and submits one
\* schema, the columns of the table without that one, in their order
C11_RemoveExistingColumnSubmits ==
    (/\ lastOp.name = "remove_column"
     /\ NameIn(lastOp.args[2], ColNames(lastOp.fetched)))
    => (/\ Len(lastOp.submits) = 1
        /\ lastOp.submits[1] = ColsWithout(lastOp.fetched, lastOp.args[2])
        /\ Len(lastOp.submits[1]) = Len(lastOp.fetched) - 1)

Named(op) == {i \in DOMAIN op.fetched : op.fetched[i].name = op.args[2]}

\* those of them whose type is not the requested one
Differing(op) == {i \in Named(op) : op.fetched[i].type # op.args[3]}

\* the fetched table with the requested type in every column of that name
Retyped(op) ==
    [i \in DOMAIN op.fetched |->
        IF i \in Named(op)
        THEN [cls |-> "FieldSchema", name |-> op.fetched[i].name, type |-> op.args[3],
              comment |-> op.fetched[i].comment]
        ELSE op.fetched[i]]

\* C13: alter_column_type of a column that exists and has the requested type
\* (every column of that name has it) does not raise, submits nothing and leaves
\* the table as it was
C13_AlterSameTypeIsNoOp ==
    (/\ lastOp.name = "alter_column_type"
     /\ Named(lastOp) # {}
     /\ Differing(lastOp) = {})
    => (~lastOp.raised /\ lastOp.submits = <<>> /\ srvTable = lastOp.fetched)

\* the column is there with the requested type, next to another column
C13_Witness ==
    /\ lastOp.name = "alter_column_type"
    /\ Len(lastOp.fetched) = 2
    /\ Cardinality(Named(lastOp)) = 1
    /\ Differing(lastOp) = {}
    /\ lastOp.calls = <<[call |-> "get_table", open |-> TRUE, n |-> 0]>>
    /\ ~lastOp.raised

\* C14: alter_column_type of a name the table does not have raises and submits
\* nothing; when a column of that name has another type, every schema submitted
\* is the table with only the types of the columns of that name changed, and
\* when the operation ends without error the last schema submitted, which is
\* the table from then on, has the requested type in those columns (one schema
\* is submitted per column whose type differed)
C14_AlterColumnType ==
    lastOp.name = "alter_column_type" =>
        /\ (lastOp.args[1] = "t" /\ ~NameIn(lastOp.args[2], ColNames(srvTable)))
               => (lastOp.raised /\ lastOp.submits = <<>>)
        /\ \A n \in DOMAIN lastOp.submits :
              /\ Len(lastOp.submits[n]) = Len(lastOp.fetched)
              /\ \A i \in DOMAIN lastOp.fetched :
                    \/ lastOp.submits[n][i] = lastOp.fetched[i]
                    \/ i \in Differing(lastOp) /\ lastOp.submits[n][i] = Retyped(lastOp)[i]
        /\ (Differing(lastOp) # {} /\ ~lastOp.raised)
               => (/\ Len(lastOp.submits) = Cardinality(Differing(lastOp))
                   /\ lastOp.submits[Len(lastOp.submits)] = Retyped(lastOp)
                   /\ srvTable = Retyped(lastOp))
        /\ (Differing(lastOp) # {} /\ GotTable(lastOp)) => lastOp.submits # <<>>

\* the one column of that name had another type, next to a column of another name
C14_Witness ==
    /\ lastOp.name = "alter_column_type"
    /\ ~lastOp.raised
    /\ Len(lastOp.fetched) = 2
    /\ Cardinality(Named(lastOp)) = 1
    /\ Cardinality(Differing(lastOp)) = 1
    /\ Len(lastOp.submits) = 1
    /\ srvTable = lastOp.submits[1]
    /\ srvTable # lastOp.fetched

----------------------------------------------------------------------------
(* Claims about construction and the states of the transport *)

\* C15: when HiveClient(...) has finished, with or without an error, it has
\* called open() once and the transport is closed
C15_ClosedAfterConstruction ==
    lastOp.name = "__init__" => (Count(lastOp.tlog, "open") = 1 /\ ~isOpen)

\* C16: HiveClient(...) for a database the server does not have raises, and
\* after a construction that raised there is no client: no method has been or
\* can be called
C16_NoClientWithoutDatabase ==
    /\ (lastOp.name = "__init__" /\ lastOp.args[1] \notin Databases)
          => (lastOp.raised /\ client = "failed")
    /\ client # "ok"
          => (/\ lastOp.name \in {"none", "__init__"}
              /\ ~sessionActive /\ ~keep_open
              /\ \A g \in GenIds : gen[g] = NoGen
              /\ ~ENABLED (\/ SessionEnter
                           \/ \E t \in TableNames : GetTable(t, 0)
                           \/ \E t \in TableNames : GetColumns(t, 0)
                           \/ \E c \in ColumnNames : RemoveColumn("t", c, 0)
                           \/ \E q \in Queries : Execute(1, q)))

\* get_database was called on the open transport for a database that is not there
C16_Witness ==
    /\ lastOp.name = "__init__"
    /\ lastOp.args = <<"nodb">>
    /\ lastOp.calls = <<[call |-> "get_database", open |-> TRUE, n |-> 0]>>
    /\ client = "failed"

\* C17: open() is only called on a closed transport and close() only on an open
\* one, so that a session is always entered from the closed state
C17_OpenOnlyWhenClosed ==
    \A i \in DOMAIN lastOp.tlog :
        /\ lastOp.tlog[i].call = "open" => ~lastOp.tlog[i].wasOpen
        /\ lastOp.tlog[i].call = "close" => lastOp.tlog[i].wasOpen

\* C19: between two operations, keep_open is true only while the transport is open
C19_PinnedImpliesOpen == keep_open => isOpen

\* a scoped operation failed inside the block of a session
C19_Witness ==
    /\ sessionActive
    /\ lastOp.name \in ScopedNames
    /\ lastOp.raised /\ lastOp.kept
    /\ keep_open /\ isOpen

----------------------------------------------------------------------------
(* Claims about the shape and the origin of the records *)

\* C18: every record yielded by execute has as many fields as the query has
\* field names, whatever the number of tab-separated values of the row
C18_RecordHasAllFields ==
    \A g \in GenIds : \A n \in DOMAIN gen[g].out :
        Cardinality(DOMAIN gen[g].out[n]) = Len(gen[g].stypes)

\* the rows of the result of query q
RowsOf(q) == {srvResult[q].rows[i] : i \in DOMAIN srvResult[q].rows}

\* C20: with two generators advanced in any order, every row a generator
\* received is a row of the query it submitted, its field names are those of
\* that query, and every record it yielded is built from such a row and names
C20_RecordsFromOwnQuery ==
    \A g \in GenIds :
        gen[g].pc \in {"suspended", "done"} =>
            /\ gen[g].stypes = srvResult[gen[g].query].schema
            /\ \A n \in DOMAIN gen[g].recv : gen[g].recv[n] \in RowsOf(gen[g].query)
            /\ \A n \in DOMAIN gen[g].out :
                  \E row \in RowsOf(gen[g].query) :
                      gen[g].out[n] = record(srvResult[gen[g].query].schema, row)

====
